---- MODULE Spec2Model ----
(***************************************************************************)
(* PandaKnock: the iced application PandaKnocking (src/src/main.rs) as a   *)
(* state machine.  The state is the fields of the PandaKnocking struct,    *)
(* the tasks the update function has handed to the runtime and that have   *)
(* not yet delivered their message, and the probes sent to the network.    *)
(* Texts are sequences of one-character strings, so that splitting,        *)
(* trimming and number parsing are computed as the code computes them.     *)
(***************************************************************************)
EXTENDS Integers, Sequences, FiniteSets, Bags, TLC

\* ------------------------------------------------------------------ bounds

\* The number of user and window events (key strokes, button presses,
\* window events) the environment sends in one behaviour.
MaxInputs == 3

\* The length of the texts parse_port_str is called with on its own.
MaxTextLen == 4

\* ---------------------------------------------------------------- texts

U16Max == 65535

Digits == <<"0", "1", "2", "3", "4", "5", "6", "7", "8", "9">>

IsDigit(c) == \E i \in 1..10 : Digits[i] = c

DigitVal(c) == (CHOOSE i \in 1..10 : Digits[i] = c) - 1

IsSpace(c) == c = " "

\* str::split(','): the pieces between the commas, empty pieces included;
\* a text without a comma (the empty text too) is one piece.
RECURSIVE SplitComma(_)
SplitComma(s) ==
    IF \A i \in 1..Len(s) : s[i] # ","
    THEN <<s>>
    ELSE LET i == CHOOSE k \in 1..Len(s) :
                      s[k] = "," /\ \A j \in 1..(k - 1) : s[j] # ","
         IN  <<SubSeq(s, 1, i - 1)>> \o SplitComma(SubSeq(s, i + 1, Len(s)))

RECURSIVE TrimStart(_)
TrimStart(s) ==
    IF s # <<>> /\ IsSpace(Head(s)) THEN TrimStart(Tail(s)) ELSE s

RECURSIVE TrimEnd(_)
TrimEnd(s) ==
    IF s # <<>> /\ IsSpace(s[Len(s)]) THEN TrimEnd(SubSeq(s, 1, Len(s) - 1)) ELSE s

\* Trimming as it would be with the end of the text left alone.
Trim_StartOnly(s) == TrimStart(s)

\* str::trim
Trim(s) == TrimEnd(TrimStart(s))

\* The digit loop of from_str_radix for an unsigned type of maximum max:
\* per character, an invalid digit is reported before an overflow of the
\* multiplication, and the overflow of the addition last.
RECURSIVE ParseDigits(_, _, _)
ParseDigits(s, acc, max) ==
    IF s = <<>>
    THEN [ok |-> TRUE, val |-> acc, err |-> "none"]
    ELSE LET c == Head(s)
         IN  IF ~IsDigit(c)
             THEN [ok |-> FALSE, val |-> 0, err |-> "InvalidDigit"]
             ELSE IF acc * 10 > max \/ acc * 10 + DigitVal(c) > max
             THEN [ok |-> FALSE, val |-> 0, err |-> "PosOverflow"]
             ELSE ParseDigits(Tail(s), acc * 10 + DigitVal(c), max)

\* str::parse::<uN>: the empty text and a lone sign are errors, one leading
\* "+" is accepted, "-" is an invalid digit for an unsigned type.
ParseUnsigned(s, max) ==
    IF s = <<>>
    THEN [ok |-> FALSE, val |-> 0, err |-> "Empty"]
    ELSE IF Len(s) = 1 /\ s[1] \in {"+", "-"}
    THEN [ok |-> FALSE, val |-> 0, err |-> "InvalidDigit"]
    ELSE IF s[1] = "+"
    THEN ParseDigits(Tail(s), 0, max)
    ELSE ParseDigits(s, 0, max)

\* The parse as it would be for a type a hundred times as wide as u16.
ParseU16_Wide(s) == ParseUnsigned(s, U16Max * 100)

\* trimmed.parse::<u16>()
ParseU16(s) == ParseUnsigned(s, U16Max)

\* parse_port_str: the ports of the valid tokens in order, and one error
\* toast per non-empty token that is no u16, with the 1-based position of the
\* token in the comma split.  i is the 0-based index of the first token of
\* toks in the split.
RECURSIVE ParseTokens(_, _, _)
ParseTokens(toks, i, kind) ==
    IF toks = <<>>
    THEN [ports |-> <<>>, toasts |-> <<>>]
    ELSE LET trimmed == Trim(Head(toks))
             rest    == ParseTokens(Tail(toks), i + 1, kind)
             r       == ParseU16(trimmed)
         IN  IF trimmed = <<>>
             THEN rest
             ELSE IF r.ok
             THEN [ports |-> <<r.val>> \o rest.ports, toasts |-> rest.toasts]
             ELSE [ports  |-> rest.ports,
                   toasts |-> <<[t |-> "ParseFailed", pos |-> i + 1, kind |-> kind,
                                 token |-> trimmed, err |-> r.err]>> \o rest.toasts]

parse_port_str(port_str, kind) == ParseTokens(SplitComma(port_str), 0, kind)


\* Stand-in for u64::MAX, which is beyond TLC's integers: the delay texts of
\* the model have fewer than ten digits, and for those neither the code nor
\* this bound reports an overflow.
ModelIntMax == 2147483647

\* new_delay.trim().parse::<u64>()
ParseU64(s) == ParseUnsigned(s, ModelIntMax)

\* ------------------------------------------------------ configuration

DefaultDelay == 1000

DefaultPortsStr ==
    <<"5", "0", "0", "0", ",", " ", "6", "0", "0", "0", ",", " ", "7", "0", "0", "0">>

DefaultClosePortsStr ==
    <<"7", "0", "0", "0", ",", " ", "6", "0", "0", "0", ",", " ", "5", "0", "0", "0">>

\* Config::default
DefaultConfig ==
    [host |-> "127.0.0.1", ports_str |-> DefaultPortsStr,
     close_ports_str |-> DefaultClosePortsStr, delay |-> DefaultDelay]

\* What load_or_create can return: the defaults, or the record of a valid
\* configuration file (here: one whose close list is empty, one with a
\* token that is no port).
LoadedConfigs ==
    { DefaultConfig,
      [host |-> "10.0.0.1", ports_str |-> <<"7">>, close_ports_str |-> <<>>,
       delay |-> 0],
      [host |-> "10.0.0.1", ports_str |-> <<"8", ",", "x">>,
       close_ports_str |-> <<"9">>, delay |-> 0] }

\* ------------------------------------------------- the settings file

\* The fields of Config, in the order of the struct.
ConfigFields == <<"host", "ports_str", "close_ports_str", "delay">>

\* The writing of a string as it would be with the backslash left as it is.
RECURSIVE Escape_QuoteOnly(_)
Escape_QuoteOnly(s) ==
    IF s = <<>>
    THEN <<>>
    ELSE (IF Head(s) = "\"" THEN <<"\\", Head(s)>> ELSE <<Head(s)>>)
         \o Escape_QuoteOnly(Tail(s))

\* serde_json's writing of a string: a quote and a backslash get a
\* backslash in front.  (The texts of the model hold no control characters.)
RECURSIVE Escape(_)
Escape(s) ==
    IF s = <<>>
    THEN <<>>
    ELSE (IF Head(s) \in {"\"", "\\"} THEN <<"\\", Head(s)>> ELSE <<Head(s)>>)
         \o Escape(Tail(s))

\* serde_json's reading of a string: the character after a backslash is
\* taken as it is.
RECURSIVE Unescape(_)
Unescape(s) ==
    IF s = <<>>
    THEN <<>>
    ELSE IF Head(s) = "\\" /\ Len(s) >= 2
    THEN <<s[2]>> \o Unescape(SubSeq(s, 3, Len(s)))
    ELSE <<Head(s)>> \o Unescape(Tail(s))

\* The decimal digits of a number, as serde_json writes a u64.
RECURSIVE ToDigits(_)
ToDigits(n) ==
    IF n < 10 THEN <<Digits[n + 1]>> ELSE ToDigits(n \div 10) \o <<Digits[(n % 10) + 1]>>

\* serde_json's reading of a u64: a JSON number without sign, fraction or
\* leading zero.
ReadNumber(ds) ==
    IF ds = <<>> \/ ~IsDigit(ds[1]) \/ (Len(ds) > 1 /\ ds[1] = "0")
    THEN [ok |-> FALSE, val |-> 0, err |-> "InvalidNumber"]
    ELSE ParseDigits(ds, 0, ModelIntMax)

\* The host is one opaque piece of text.
HostChars(h) == <<h>>

StringMember(key, chars) == [key |-> key, type |-> "string", val |-> Escape(chars)]

NumberMember(key, n) == [key |-> key, type |-> "number", val |-> ToDigits(n)]

\* What a file holds: nothing ("missing"), bytes that cannot be read
\* ("unreadable"), text that is no JSON object ("garbage"), or a JSON object
\* ("json") with its members in order; pretty tells the layout of
\* to_string_pretty from any other.
NoFile == [kind |-> "missing", pretty |-> FALSE, members |-> <<>>]

Unreadable == [kind |-> "unreadable", pretty |-> FALSE, members |-> <<>>]

Garbage == [kind |-> "garbage", pretty |-> FALSE, members |-> <<>>]

\* serde_json::to_string_pretty(config): the four fields in the order of the
\* struct.
Serialize(config) ==
    [kind    |-> "json",
     pretty  |-> TRUE,
     members |-> <<StringMember("host", HostChars(config.host)),
                   StringMember("ports_str", config.ports_str),
                   StringMember("close_ports_str", config.close_ports_str),
                   NumberMember("delay", config.delay)>>]

\* The members of a JSON object with the given key.
MembersOf(content, key) ==
    {i \in 1..Len(content.members) : content.members[i].key = key}

\* The reading of a field as it would be with the type of the value not
\* looked at.
FieldReadable_AnyType(content, key) ==
    /\ Cardinality(MembersOf(content, key)) = 1
    /\ LET m == content.members[CHOOSE i \in MembersOf(content, key) : TRUE]
       IN  IF key = "delay"
           THEN ReadNumber(m.val).ok
           ELSE key = "host" => Len(Unescape(m.val)) = 1

\* A field of Config can be read from the object: the key is there once,
\* with a value of the field's type.
FieldReadable(content, key) ==
    /\ Cardinality(MembersOf(content, key)) = 1
    /\ LET m == content.members[CHOOSE i \in MembersOf(content, key) : TRUE]
       IN  IF key = "delay"
           THEN m.type = "number" /\ ReadNumber(m.val).ok
           ELSE m.type = "string" /\ (key = "host" => Len(Unescape(m.val)) = 1)

FieldValue(content, key) ==
    LET m == content.members[CHOOSE i \in MembersOf(content, key) : TRUE]
    IN  IF key = "delay" THEN ReadNumber(m.val).val
        ELSE IF key = "host" THEN Unescape(m.val)[1]
        ELSE Unescape(m.val)

\* serde_json::from_str::<Config>(content): every field of the struct must
\* be there exactly once with its type; members with other keys are skipped.
Deserialize(content) ==
    IF content.kind = "json"
       /\ \A k \in 1..Len(ConfigFields) : FieldReadable(content, ConfigFields[k])
    THEN [ok |-> TRUE,
          config |-> [host            |-> FieldValue(content, "host"),
                      ports_str       |-> FieldValue(content, "ports_str"),
                      close_ports_str |-> FieldValue(content, "close_ports_str"),
                      delay           |-> FieldValue(content, "delay")]]
    ELSE [ok |-> FALSE, config |-> DefaultConfig]

\* The file system as config.rs sees it: dir tells whether get_config_path
\* finds a configuration directory, writable whether create_dir_all and
\* fs::write succeed there, content what config.json holds.
Store(dir, writable, content) ==
    [dir |-> dir, writable |-> writable, content |-> content]

\* config::save: the result, and the store afterwards.
save(config, store) ==
    IF ~store.dir
    THEN [result |-> "Err:NoConfigDir", store |-> store]
    ELSE IF ~store.writable
    THEN [result |-> "Err:Io", store |-> store]
    ELSE [result |-> "Ok", store |-> [store EXCEPT !.content = Serialize(config)]]

\* The file exists, can be read and holds a Config.
Loadable(store) ==
    /\ store.content.kind # "missing"
    /\ store.content.kind # "unreadable"
    /\ Deserialize(store.content).ok

\* config::load_or_create: the configuration returned, and the store
\* afterwards (the defaults are saved when the file is missing or broken).
load_or_create(store) ==
    IF ~store.dir
    THEN [config |-> DefaultConfig, store |-> store]
    ELSE IF Loadable(store)
    THEN [config |-> Deserialize(store.content).config, store |-> store]
    ELSE [config |-> DefaultConfig, store |-> save(DefaultConfig, store).store]

\* The stores the application is started with: no file yet, or the file of
\* one of the other configurations.
InitStores ==
    {Store(TRUE, TRUE, NoFile)} \cup
    {Store(TRUE, TRUE, Serialize(c)) : c \in LoadedConfigs \ {DefaultConfig}}

\* ------------------------------------------------------------- inputs

\* The values the text inputs of the form are given.
HostInputs == {"127.0.0.1", "10.0.0.1"}

PortInputs == { <<>>, <<"7">>, <<"7", ",", "8">>, <<"8", ",", "x">> }

DelayInputs == { <<"5">>, <<" ", "x">> }

\* iced events: the window's close request, and any other event.
Events == {"CloseRequested", "Other"}

\* ---------------------------------------------------------------- state

VARIABLES
    host,               \* PandaKnocking.host
    ports_str,          \* PandaKnocking.ports_str
    ports,              \* PandaKnocking.ports
    close_ports_str,    \* PandaKnocking.close_ports_str
    close_ports,        \* PandaKnocking.close_ports
    toasts,             \* the toasts pushed to PandaKnocking.toasts, in order
    delay,              \* PandaKnocking.delay
    is_knocking,        \* PandaKnocking.is_knocking
    is_close_requested, \* PandaKnocking.is_close_requested
    knockTasks,         \* bag of the tasks that end in a KnockStep message
    exitTasks,          \* number of tasks that end in an ExitApp message
    pushTasks,          \* bag of the tasks that end in a PushToast message
    probes,             \* the connection attempts made so far, in order
    exited,             \* std::process::exit has been called
    run,                \* the latest accepted start: kind, list, log positions
    dropped,            \* the requests that were rejected or ignored so far
    inputs,             \* number of user and window events handled
    file,               \* the configuration directory and config.json
    saveTasks,          \* bag of the tasks that end in a SaveCompleted message
    dismissed,          \* the toasts (by position in toasts) that were dismissed
    call                \* a function called on its own: its input and result

vars == <<host, ports_str, ports, close_ports_str, close_ports, toasts, delay,
          is_knocking, is_close_requested, knockTasks, exitTasks, pushTasks,
          probes, exited, run, dropped, inputs, file, saveTasks, dismissed, call>>

\* What the handlers of the knock sequencer and of the form's texts leave
\* alone.
settingsVars == <<file, saveTasks, dismissed>>

KnockType == {"Open", "Close"}

\* "开启" / "关闭"
kind_str(knock_type) == knock_type

\* The toasts update pushes.
StepToast(pos, knock_type, h, port) ==
    [t |-> "StepCompleted", pos |-> pos, kind |-> kind_str(knock_type),
     host |-> h, port |-> port]

DoneToast(knock_type) == [t |-> "SequenceCompleted", kind |-> kind_str(knock_type)]

CloseToast == [t |-> "CloseRequested"]

PushedToast(msg) == [t |-> "Pushed", msg |-> msg]

\* A task whose future has finished and whose KnockStep((kind, index))
\* message waits to be handled.
StepMsg(knock_type, index) ==
    [stage |-> "msg", kind |-> knock_type, index |-> index, host |-> "",
     port |-> 0, delay |-> 0, ok |-> TRUE]

\* The task of one step: the future holds the host, the port and the delay
\* it was created with; it first probes, then sleeps.
StepTask(knock_type, index, h, port, d) ==
    [stage |-> "probe", kind |-> knock_type, index |-> index, host |-> h,
     port |-> port, delay |-> d, ok |-> TRUE]

NoRun ==
    [kind |-> "None", seq |-> <<>>, tbase |-> 0, pbase |-> 0, edited |-> FALSE,
     shutdown |-> FALSE, host |-> "", delay |-> 0]

\* No function is called on its own.
NoCall == [fn |-> "none"]

\* The toast of SaveCompleted: success, or the failure with its reason.
SaveToast(result) == [t |-> "SaveCompleted", result |-> result]

\* The fields of PandaKnocking as new builds them from a configuration:
\* both lists parsed, nothing in progress.
Constructed(config) ==
    LET open   == parse_port_str(config.ports_str, "Open")
        close  == parse_port_str(config.close_ports_str, "Close")
    IN      /\ saveTasks = EmptyBag
            /\ dismissed = {}
            /\ host = config.host
            /\ ports_str = config.ports_str
            /\ ports = open.ports
            /\ close_ports_str = config.close_ports_str
            /\ close_ports = close.ports
            /\ toasts = open.toasts \o close.toasts
            /\ delay = config.delay
            /\ is_knocking = FALSE
            /\ is_close_requested = FALSE
            /\ knockTasks = EmptyBag
            /\ exitTasks = 0
            /\ pushTasks = EmptyBag
            /\ probes = <<>>
            /\ exited = FALSE
            /\ run = NoRun
            /\ dropped = {}

\* PandaKnocking::new: the configuration load_or_create returns in store.
New(store) ==
    LET loaded == load_or_create(store)
    IN  /\ file = loaded.store
        /\ Constructed(loaded.config)

\* The application after its construction.
Init ==
    /\ \E store \in InitStores : New(store)
    /\ call = NoCall
    /\ inputs = 0

\* A user or window event can be handled: the process runs and the
\* environment has events left.
Input ==
    /\ ~exited
    /\ inputs < MaxInputs
    /\ inputs' = inputs + 1
    /\ UNCHANGED call

\* A message of a task can be handled, or a task can take a step.
Internal ==
    /\ ~exited
    /\ UNCHANGED <<inputs, dropped, call>>


\* The run the ghost variable run describes is the one in progress, and the
\* list it reads is replaced by another one.
Edits(knock_type, new_list, old_list) ==
    is_knocking /\ run.kind = knock_type /\ new_list # old_list

\* ----------------------------------------------------- the form's inputs

\* Message::HostInputChanged
HostInputChanged(new_value) ==
    /\ Input
    /\ UNCHANGED settingsVars
    /\ UNCHANGED dropped
    /\ host' = new_value
    /\ UNCHANGED <<ports_str, ports, close_ports_str, close_ports, toasts, delay,
                   is_knocking, is_close_requested, knockTasks, exitTasks,
                   pushTasks, probes, exited, run>>

\* Message::PortInputChanged, with parse_ports
PortInputChanged(new_port) ==
    /\ Input
    /\ UNCHANGED settingsVars
    /\ UNCHANGED dropped
    /\ LET parsed == parse_port_str(new_port, "Open")
       IN  /\ ports_str' = new_port
           /\ ports' = parsed.ports
           /\ toasts' = toasts \o parsed.toasts
           /\ run' = IF Edits("Open", parsed.ports, ports)
                     THEN [run EXCEPT !.edited = TRUE] ELSE run
    /\ UNCHANGED <<host, close_ports_str, close_ports, delay, is_knocking,
                   is_close_requested, knockTasks, exitTasks, pushTasks, probes,
                   exited>>

\* Message::ClosePortInputChanged, with parse_close_ports
ClosePortInputChanged(value) ==
    /\ Input
    /\ UNCHANGED settingsVars
    /\ UNCHANGED dropped
    /\ LET parsed == parse_port_str(value, "Close")
       IN  /\ close_ports_str' = value
           /\ close_ports' = parsed.ports
           /\ toasts' = toasts \o parsed.toasts
           /\ run' = IF Edits("Close", parsed.ports, close_ports)
                     THEN [run EXCEPT !.edited = TRUE] ELSE run
    /\ UNCHANGED <<host, ports_str, ports, delay, is_knocking, is_close_requested,
                   knockTasks, exitTasks, pushTasks, probes, exited>>

\* Message::DelayInputChanged: a number is stored, anything else becomes a
\* task that delivers the error text as a PushToast message.
DelayInputChanged(new_delay) ==
    /\ Input
    /\ UNCHANGED settingsVars
    /\ UNCHANGED dropped
    /\ LET r == ParseU64(Trim(new_delay))
       IN  IF r.ok
           THEN /\ delay' = r.val
                /\ UNCHANGED pushTasks
           ELSE /\ pushTasks' = pushTasks (+)
                        SetToBag({[token |-> Trim(new_delay), err |-> r.err]})
                /\ UNCHANGED delay
    /\ UNCHANGED <<host, ports_str, ports, close_ports_str, close_ports, toasts,
                   is_knocking, is_close_requested, knockTasks, exitTasks, probes,
                   exited, run>>

\* Message::PushToast
PushToast(tup) ==
    /\ Internal
    /\ UNCHANGED settingsVars
    /\ BagIn(tup, pushTasks)
    /\ pushTasks' = pushTasks (-) SetToBag({tup})
    /\ toasts' = Append(toasts, PushedToast(tup))
    /\ UNCHANGED <<host, ports_str, ports, close_ports_str, close_ports, delay,
                   is_knocking, is_close_requested, knockTasks, exitTasks, probes,
                   exited, run>>

\* ------------------------------------------------ toasts and settings

\* The fields of the struct that make up the saved configuration.
CurrentConfig ==
    [host |-> host, ports_str |-> ports_str, close_ports_str |-> close_ports_str,
     delay |-> delay]

\* The state of the application but for the settings file, its tasks and
\* the dismissed toasts.
knockVars == <<host, ports_str, ports, close_ports_str, close_ports, delay,
               is_knocking, is_close_requested, knockTasks, exitTasks, pushTasks,
               probes, exited, run>>

\* Message::DismissToast: the toast container drops the toast of that id.
DismissToast(id) ==
    /\ Input
    /\ id \in (1..Len(toasts)) \ dismissed
    /\ dismissed' = dismissed \cup {id}
    /\ UNCHANGED <<knockVars, toasts, dropped, file, saveTasks>>

\* Message::SaveButtonPressed: a task is given a copy of the configuration.
SaveButtonPressed ==
    /\ Input
    /\ saveTasks' = saveTasks (+)
           SetToBag({[stage |-> "save", config |-> CurrentConfig, result |-> "none"]})
    /\ UNCHANGED <<knockVars, toasts, dropped, file, dismissed>>

\* The task of SaveButtonPressed: config::save runs, its result becomes the
\* SaveCompleted message.
SaveTask(task) ==
    /\ Internal
    /\ BagIn(task, saveTasks)
    /\ task.stage = "save"
    /\ LET r == save(task.config, file)
       IN  /\ file' = r.store
           /\ saveTasks' = (saveTasks (-) SetToBag({task})) (+)
                  SetToBag({[stage |-> "msg", config |-> DefaultConfig,
                             result |-> r.result]})
    /\ UNCHANGED <<knockVars, toasts, dismissed>>

\* The handler as it would be if it also ended the run in progress.
SaveCompleted_ClearsBusy(task) ==
    /\ Internal
    /\ BagIn(task, saveTasks)
    /\ task.stage = "msg"
    /\ saveTasks' = saveTasks (-) SetToBag({task})
    /\ toasts' = Append(toasts, SaveToast(task.result))
    /\ is_knocking' = FALSE
    /\ UNCHANGED <<host, ports_str, ports, close_ports_str, close_ports, delay,
                   is_close_requested, knockTasks, exitTasks, pushTasks, probes,
                   exited, run, file, dismissed>>

\* Message::SaveCompleted
SaveCompleted(task) ==
    /\ Internal
    /\ BagIn(task, saveTasks)
    /\ task.stage = "msg"
    /\ saveTasks' = saveTasks (-) SetToBag({task})
    /\ toasts' = Append(toasts, SaveToast(task.result))
    /\ UNCHANGED <<knockVars, file, dismissed>>

\* ------------------------------------------------------- the sequencer

\* The guard as it would be with the test of is_knocking forgotten.
StartRejected_NoBusyTest(list) == list = <<>>

\* The guard of KnockPressed and CloseKnockPressed: a run is in progress, or
\* the list is empty.
StartRejected(list) == is_knocking \/ list = <<>>

\* The accepted start of KnockPressed, CloseKnockPressed and of the close
\* request: the flag is set and the first KnockStep message is on its way.
StartRun(knock_type, list, tbase, shutdown) ==
    /\ is_knocking' = TRUE
    /\ knockTasks' = knockTasks (+) SetToBag({StepMsg(knock_type, 0)})
    /\ run' = [kind |-> knock_type, seq |-> list, tbase |-> tbase,
               pbase |-> Len(probes), edited |-> FALSE, shutdown |-> shutdown,
               host |-> host, delay |-> delay]

\* Message::KnockPressed
KnockPressed ==
    /\ Input
    /\ UNCHANGED settingsVars
    /\ IF StartRejected(ports)
       THEN /\ dropped' = dropped \cup {"KnockPressed"}
            /\ UNCHANGED <<is_knocking, knockTasks, run>>
       ELSE /\ StartRun("Open", ports, Len(toasts), FALSE)
            /\ UNCHANGED dropped
    /\ UNCHANGED <<host, ports_str, ports, close_ports_str, close_ports, toasts,
                   delay, is_close_requested, exitTasks, pushTasks, probes, exited>>

\* Message::CloseKnockPressed
CloseKnockPressed ==
    /\ Input
    /\ UNCHANGED settingsVars
    /\ IF StartRejected(close_ports)
       THEN /\ dropped' = dropped \cup {"CloseKnockPressed"}
            /\ UNCHANGED <<is_knocking, knockTasks, run>>
       ELSE /\ StartRun("Close", close_ports, Len(toasts), FALSE)
            /\ UNCHANGED dropped
    /\ UNCHANGED <<host, ports_str, ports, close_ports_str, close_ports, toasts,
                   delay, is_close_requested, exitTasks, pushTasks, probes, exited>>

\* ports_to_use of KnockStep: the list of the kind, as it is now.
ports_to_use(knock_type) == IF knock_type = "Open" THEN ports ELSE close_ports

\* Vec::get(i), i counted from 0, is Some.
HasIndex(list, i) == 0 <= i /\ i < Len(list)

\* Vec::get(i), i counted from 0.
Get(list, i) == list[i + 1]

\* The toast as it would be if it were pushed only when the list has an
\* entry at index too: the last step of a run would get none.
PrevStepToast_NotAtEnd(knock_type, index) ==
    IF index > 0 /\ HasIndex(ports_to_use(knock_type), index)
    THEN <<StepToast(index - 1 + 1, knock_type, host,
                     Get(ports_to_use(knock_type), index - 1))>>
    ELSE <<>>

\* The toast of the step before index: pushed when index > 0 and the list
\* has an entry at index - 1 now; it names the host and that entry as they
\* are now.
PrevStepToast(knock_type, index) ==
    IF index > 0 /\ HasIndex(ports_to_use(knock_type), index - 1)
    THEN <<StepToast(index - 1 + 1, knock_type, host,
                     Get(ports_to_use(knock_type), index - 1))>>
    ELSE <<>>

\* The test as it would be with is_close_requested forgotten.
ExitOnCompletion_AnyClose(knock_type) == knock_type = "Close"

\* The test as it would be if no run ever asked for the exit.
ExitOnCompletion_Never(knock_type) == FALSE

\* The end of a run asks for the exit: a Close run, after a close request.
ExitOnCompletion(knock_type) == knock_type = "Close" /\ is_close_requested

\* Message::KnockStep((knock_type, index))
KnockStep(m) ==
    /\ Internal
    /\ UNCHANGED settingsVars
    /\ BagIn(m, knockTasks)
    /\ m.stage = "msg"
    /\ IF HasIndex(ports_to_use(m.kind), m.index)
       THEN /\ toasts' = toasts \o PrevStepToast(m.kind, m.index)
            /\ knockTasks' = (knockTasks (-) SetToBag({m})) (+)
                   SetToBag({StepTask(m.kind, m.index, host,
                                      Get(ports_to_use(m.kind), m.index), delay)})
            /\ UNCHANGED <<is_knocking, exitTasks>>
       ELSE /\ is_knocking' = FALSE
            /\ toasts' = toasts \o PrevStepToast(m.kind, m.index)
                                \o <<DoneToast(m.kind)>>
            /\ knockTasks' = knockTasks (-) SetToBag({m})
            /\ exitTasks' = IF ExitOnCompletion(m.kind)
                            THEN exitTasks + 1 ELSE exitTasks
    /\ UNCHANGED <<host, ports_str, ports, close_ports_str, close_ports, delay,
                   is_close_requested, pushTasks, probes, exited, run>>

\* shoot(addr).await in the task of a step: one connection attempt to
\* host:port, which succeeds or fails; the task goes on either way.
Shoot(task, ok) ==
    /\ Internal
    /\ UNCHANGED settingsVars
    /\ BagIn(task, knockTasks)
    /\ task.stage = "probe"
    /\ probes' = Append(probes, [kind |-> task.kind, index |-> task.index,
                                 host |-> task.host, port |-> task.port])
    /\ knockTasks' = (knockTasks (-) SetToBag({task})) (+)
           SetToBag({[task EXCEPT !.stage = "sleep", !.ok = ok]})
    /\ UNCHANGED <<host, ports_str, ports, close_ports_str, close_ports, toasts,
                   delay, is_knocking, is_close_requested, exitTasks, pushTasks,
                   exited, run>>

\* The index as it would be if a step skipped a port.
NextIndex_Skip(index) == index + 2

\* index + 1 in the result of the task
NextIndex(index) == index + 1

\* The result as it would be if a failed probe ended the run: an index
\* beyond every list.
StepResult_FailureEnds(task) ==
    IF task.ok
    THEN [StepMsg(task.kind, NextIndex(task.index)) EXCEPT !.ok = task.ok]
    ELSE [StepMsg(task.kind, NextIndex(task.index) + 1000) EXCEPT !.ok = task.ok]

\* The result of the task, (knock_type, index + 1), as the KnockStep message
\* it becomes; what shoot returned is dropped by the code and kept here
\* only to tell which probe the message follows.
StepResult(task) ==
    [StepMsg(task.kind, NextIndex(task.index)) EXCEPT !.ok = task.ok]

\* sleep(delay).await in the task of a step, and the task's result
\* (knock_type, index + 1) becoming a KnockStep message.
Sleep(task) ==
    /\ Internal
    /\ UNCHANGED settingsVars
    /\ BagIn(task, knockTasks)
    /\ task.stage = "sleep"
    /\ knockTasks' = (knockTasks (-) SetToBag({task})) (+)
           SetToBag({StepResult(task)})
    /\ UNCHANGED <<host, ports_str, ports, close_ports_str, close_ports, toasts,
                   delay, is_knocking, is_close_requested, exitTasks, pushTasks,
                   probes, exited, run>>

\* ------------------------------------------------------------ shutdown

\* The guard as it would be with the test of is_knocking forgotten.
CloseIgnored_Never == FALSE

\* The guard of the close request: a run is in progress.
CloseIgnored == is_knocking

\* The test as it would be if the empty close list were not noticed.
CloseSequenceEmpty_Never == FALSE

\* close_ports.is_empty() at the close request
CloseSequenceEmpty == close_ports = <<>>

\* The flag as it would be if an accepted close request flipped it.
CloseRequestedAfter_Toggle(event) ==
    IF event = "CloseRequested" /\ ~is_knocking
    THEN ~is_close_requested ELSE is_close_requested

\* is_close_requested after an event: the close request that is not ignored
\* sets it, and nothing else writes it.
CloseRequestedAfter(event) ==
    IF event = "CloseRequested" /\ ~CloseIgnored THEN TRUE ELSE is_close_requested

\* Message::EventOccurred
EventOccurred(event) ==
    /\ Input
    /\ UNCHANGED settingsVars
    /\ is_close_requested' = CloseRequestedAfter(event)
    /\ IF event = "CloseRequested"
       THEN IF CloseIgnored
            THEN /\ dropped' = dropped \cup {"CloseRequested"}
                 /\ UNCHANGED <<toasts, exitTasks, is_knocking, knockTasks, run>>
            ELSE /\ toasts' = Append(toasts, CloseToast)
                 /\ UNCHANGED dropped
                 /\ IF CloseSequenceEmpty
                    THEN /\ exitTasks' = exitTasks + 1
                         /\ UNCHANGED <<is_knocking, knockTasks, run>>
                    ELSE /\ StartRun("Close", close_ports, Len(toasts) + 1, TRUE)
                         /\ UNCHANGED exitTasks
       ELSE UNCHANGED <<toasts, exitTasks, is_knocking, knockTasks, run, dropped>>
    /\ UNCHANGED <<host, ports_str, ports, close_ports_str, close_ports, delay,
                   pushTasks, probes, exited>>

\* Message::ExitApp: std::process::exit(0); nothing of the process is left
\* to take a step.
ExitApp ==
    /\ Internal
    /\ UNCHANGED settingsVars
    /\ exitTasks > 0
    /\ exitTasks' = exitTasks - 1
    /\ exited' = TRUE
    /\ UNCHANGED <<host, ports_str, ports, close_ports_str, close_ports, toasts,
                   delay, is_knocking, is_close_requested, knockTasks, pushTasks,
                   probes, run>>

\* ------------------------------------------------------- specification

Next ==
    \/ \E h \in HostInputs : HostInputChanged(h)
    \/ \E s \in PortInputs : PortInputChanged(s)
    \/ \E s \in PortInputs : ClosePortInputChanged(s)
    \/ \E s \in DelayInputs : DelayInputChanged(s)
    \/ \E tup \in BagToSet(pushTasks) : PushToast(tup)
    \/ KnockPressed
    \/ CloseKnockPressed
    \/ \E m \in BagToSet(knockTasks) : KnockStep(m)
    \/ \E task \in BagToSet(knockTasks) : \E ok \in BOOLEAN : Shoot(task, ok)
    \/ \E task \in BagToSet(knockTasks) : Sleep(task)
    \/ \E event \in Events : EventOccurred(event)
    \/ ExitApp
    \/ \E id \in 1..Len(toasts) : DismissToast(id)
    \/ SaveButtonPressed
    \/ \E task \in BagToSet(saveTasks) : SaveTask(task)
    \/ \E task \in BagToSet(saveTasks) : SaveCompleted(task)

Spec == Init /\ [][Next]_vars


\* The code's scheduling: the runtime polls every task it was handed and
\* delivers every message, so a task step or a message that stays possible
\* is eventually taken.  No fairness is assumed of the user.
Fairness ==
    /\ WF_vars(\E m \in BagToSet(knockTasks) : KnockStep(m))
    /\ WF_vars(\E task \in BagToSet(knockTasks) : \E ok \in BOOLEAN : Shoot(task, ok))
    /\ WF_vars(\E task \in BagToSet(knockTasks) : Sleep(task))
    /\ WF_vars(\E tup \in BagToSet(pushTasks) : PushToast(tup))
    /\ WF_vars(ExitApp)
    /\ WF_vars(\E task \in BagToSet(saveTasks) : SaveTask(task))
    /\ WF_vars(\E task \in BagToSet(saveTasks) : SaveCompleted(task))

FairSpec == Init /\ [][Next]_vars /\ Fairness

\* The application after a window event that is no close request (the
\* handler does nothing, main.rs:255-278), from where one event fewer is
\* left to the environment.
InitAfterOtherEvent ==
    /\ \E store \in InitStores : New(store)
    /\ call = NoCall
    /\ inputs = 1

ShutdownSpec == InitAfterOtherEvent /\ [][Next]_vars /\ Fairness

\* ------------------------------------------------------- observations

\* The number of knock steps outstanding: KnockStep messages not yet handled
\* and probe+delay tasks in progress.
Outstanding == BagCardinality(knockTasks)

IsRunToast(x) == x.t \in {"StepCompleted", "SequenceCompleted"}

\* The StepCompleted and SequenceCompleted toasts pushed since the latest
\* accepted start.
RunToasts == SelectSeq(SubSeq(toasts, run.tbase + 1, Len(toasts)), IsRunToast)

\* The probes made since the latest accepted start.
RunProbes == SubSeq(probes, run.pbase + 1, Len(probes))

Last(seq) == seq[Len(seq)]

HasToast(x) == \E i \in 1..Len(toasts) : toasts[i] = x

\* ------------------------------------------------------------- claims

\* C1: single-flight.  In every reachable state the number of outstanding
\* knock steps is 1 when is_knocking is true and 0 when it is false, and a
\* step that adds a knock step (a start) is taken from a state where
\* is_knocking is false and adds exactly one.
C1_SingleFlight ==
    /\ [](Outstanding = IF is_knocking THEN 1 ELSE 0)
    /\ [][Outstanding' > Outstanding =>
            ~is_knocking /\ is_knocking' /\ Outstanding' = 1]_vars

\* C1 witness: a second run is in progress after a first one has completed,
\* and a request was rejected on the way.
C1_Witness ==
    /\ is_knocking
    /\ Outstanding = 1
    /\ \E i \in 1..Len(toasts) : toasts[i].t = "SequenceCompleted"
    /\ dropped # {}

\* C2: a rejected start is a no-op.  A KnockPressed handled while is_knocking
\* is true or the open list is empty, and a CloseKnockPressed handled while
\* is_knocking is true or the close list is empty, leave the fields, the
\* tasks in flight (nothing is queued), the probes and the toasts unchanged.
C2_RejectedStartNoOp ==
    [][(\/ KnockPressed /\ (is_knocking \/ ports = <<>>)
        \/ CloseKnockPressed /\ (is_knocking \/ close_ports = <<>>))
       => UNCHANGED <<host, ports_str, ports, close_ports_str, close_ports, toasts,
                      delay, is_knocking, is_close_requested, knockTasks,
                      exitTasks, pushTasks, probes, exited, run>>]_vars

\* C2 witness: both buttons were pressed and rejected while a run was in
\* progress, and the run has gone on to probe.
C2_Witness ==
    /\ {"KnockPressed", "CloseKnockPressed"} \subseteq dropped
    /\ is_knocking
    /\ RunProbes # <<>>


\* C3: liveness of a run.  A start sets is_knocking, and whenever
\* is_knocking is true it eventually is false again, under the fair
\* scheduling of the tasks and their messages.
C3_RunCompletes ==
    /\ [][Outstanding' > Outstanding => is_knocking']_vars
    /\ (is_knocking ~> ~is_knocking)

\* What holds instead of C3: a run ends, or the process has exited under it.
C3_RunCompletesOrExit == is_knocking ~> (~is_knocking \/ exited)


\* Toast x is the StepCompleted of position i (counted from 1) of the
\* latest run, naming the port the run was started with at that position.
IsStepOfRun(x, i) ==
    /\ x.t = "StepCompleted"
    /\ x.pos = i
    /\ x.kind = run.kind
    /\ x.port = run.seq[i]

\* Probe p is the probe of position i (counted from 1) of the latest run.
IsProbeOfRun(p, i) ==
    /\ p.kind = run.kind
    /\ p.index = i - 1
    /\ p.port = run.seq[i]

\* A run has been started, and the list it reads was not replaced by
\* another one while it was in progress.
UneditedRun == run.kind # "None" /\ ~run.edited

\* C4: exact event count of a run.  For a run of n ports whose list is not
\* edited: n > 0; while is_knocking is true the run has pushed the
\* StepCompleted toasts of positions 1..k for some k <= n and no
\* SequenceCompleted, and has made k or k + 1 <= n probes; once is_knocking
\* is false it has made exactly n probes and pushed exactly the n
\* StepCompleted toasts of positions 1..n in ascending order, followed by
\* exactly one SequenceCompleted of its kind.  The probes are those of
\* positions 1, 2, ... of the list in order.
C4_ExactEvents ==
    UneditedRun =>
        LET n == Len(run.seq)
        IN  /\ n > 0
            /\ Len(RunProbes) <= n
            /\ \A i \in 1..Len(RunProbes) : IsProbeOfRun(RunProbes[i], i)
            /\ IF is_knocking
               THEN /\ Len(RunToasts) <= n
                    /\ \A i \in 1..Len(RunToasts) : IsStepOfRun(RunToasts[i], i)
                    /\ Len(RunProbes) \in {Len(RunToasts), Len(RunToasts) + 1}
               ELSE /\ Len(RunToasts) = n + 1
                    /\ \A i \in 1..n : IsStepOfRun(RunToasts[i], i)
                    /\ RunToasts[n + 1] = DoneToast(run.kind)
                    /\ Len(RunProbes) = n

\* C4 witness: an unedited run of three ports has completed.
C4_Witness ==
    /\ UneditedRun
    /\ ~is_knocking
    /\ Len(run.seq) = 3
    /\ Len(RunProbes) = 3
    /\ Len(RunToasts) = 4


\* The StepCompleted toasts of positions 1..n of the latest run followed by
\* its SequenceCompleted, and nothing else: what a complete run of n ports
\* has pushed.
AllEventsOfRun(ts, n) ==
    /\ Len(ts) = n + 1
    /\ \A i \in 1..n : IsStepOfRun(ts[i], i)
    /\ ts[n + 1] = DoneToast(run.kind)

\* A step is the handling of a close request while no run is in progress.
CloseRequestAccepted == EventOccurred("CloseRequested") /\ ~is_knocking

\* C5: close request with a close list of n > 0 ports, handled while
\* is_knocking is false: is_close_requested becomes true and a Close run
\* starts at index 0; the step in which that run issues ExitApp comes after
\* all n StepCompleted toasts and the SequenceCompleted toast of the run,
\* and that ExitApp is the only one issued.
C5_ExitAfterCloseRun ==
    /\ [][CloseRequestAccepted /\ close_ports # <<>> =>
            /\ is_close_requested'
            /\ is_knocking'
            /\ knockTasks' = knockTasks (+) SetToBag({StepMsg("Close", 0)})
            /\ exitTasks' = exitTasks]_vars
    /\ [][run.shutdown /\ is_knocking /\ exitTasks' > exitTasks =>
            /\ AllEventsOfRun(RunToasts', Len(run.seq))
            /\ exitTasks' = 1]_vars

\* What holds instead of C5: the same with the run's list not edited, and
\* without the count of the ExitApp messages.
C5_ExitAfterUneditedCloseRun ==
    [][run.shutdown /\ is_knocking /\ exitTasks' > exitTasks /\ ~run.edited =>
            AllEventsOfRun(RunToasts', Len(run.seq))]_vars

\* C6: close request with an empty close list, handled while is_knocking is
\* false: in that one step is_close_requested becomes true and one ExitApp
\* is issued; no probe is made, no knock step is scheduled, the only toast
\* pushed is the notice of the close request, and is_knocking stays false.
C6_EmptyCloseExitsAtOnce ==
    [][CloseRequestAccepted /\ close_ports = <<>> =>
            /\ is_close_requested'
            /\ exitTasks' = exitTasks + 1
            /\ probes' = probes
            /\ knockTasks' = knockTasks
            /\ toasts' = Append(toasts, CloseToast)
            /\ ~is_knocking']_vars

\* C6 witness: the close request was handled with an empty close list: no
\* run was ever started, and an ExitApp is on its way.
C6_Witness ==
    /\ is_close_requested
    /\ exitTasks = 1
    /\ run = NoRun
    /\ close_ports = <<>>
    /\ probes = <<>>
    /\ ~is_knocking
    /\ ~exited

\* C7: a close request handled while is_knocking is true changes nothing:
\* no second run, is_close_requested not set, no ExitApp, the run in flight
\* (its kind, its next index, its task) as before.
C7_CloseIgnoredWhileBusy ==
    [][EventOccurred("CloseRequested") /\ is_knocking =>
            UNCHANGED <<host, ports_str, ports, close_ports_str, close_ports,
                        toasts, delay, is_knocking, is_close_requested,
                        knockTasks, exitTasks, pushTasks, probes, exited,
                        run>>]_vars

\* C7 witness: a close request was ignored during a run, and the run has
\* completed without the close request ever being accepted.
C7_Witness ==
    /\ "CloseRequested" \in dropped
    /\ ~is_knocking
    /\ ~is_close_requested
    /\ exitTasks = 0
    /\ Len(RunToasts) = Len(run.seq) + 1

\* C8: ExitApp is issued only (a) by a close request handled while
\* is_knocking is false and the close list is empty, or (b) by the step
\* that completes a Close run while is_close_requested is true.
C8_ExitOnlyByShutdown ==
    [][exitTasks' > exitTasks =>
            \/ /\ ~is_knocking
               /\ close_ports = <<>>
               /\ is_close_requested'
               /\ toasts' = Append(toasts, CloseToast)
            \/ /\ is_knocking
               /\ ~is_knocking'
               /\ is_close_requested
               /\ Last(toasts') = DoneToast("Close")]_vars

\* C8 witness: an Open run has completed without an ExitApp, and then the
\* Close run of a close request has completed and issued one.
C8_Witness ==
    /\ HasToast(DoneToast("Open"))
    /\ is_close_requested
    /\ exitTasks = 1
    /\ Last(toasts) = DoneToast("Close")

\* C9: is_close_requested is false initially and, once true, stays true.
C9_CloseRequestedMonotonic ==
    /\ ~is_close_requested
    /\ [][is_close_requested => is_close_requested']_vars

\* C9 witness: is_close_requested was set, the steps of a whole run were
\* handled after that, and the environment's inputs are used up.
C9_Witness ==
    /\ is_close_requested
    /\ inputs = MaxInputs
    /\ \E i \in 1..Len(toasts) :
          /\ toasts[i] = CloseToast
          /\ \E j \in (i + 1)..Len(toasts) : toasts[j].t = "SequenceCompleted"

\* C10: an in-flight run cannot be altered.  The probes of the latest run
\* are those of positions 1, 2, ... of the list it was started with, the run
\* is over only after all of them were made, and every StepCompleted toast
\* of the run names the port that was probed at its position.
C10_RunProbesItsSequence ==
    run.kind # "None" =>
        /\ Len(RunProbes) <= Len(run.seq)
        /\ \A i \in 1..Len(RunProbes) : IsProbeOfRun(RunProbes[i], i)
        /\ ~is_knocking => Len(RunProbes) = Len(run.seq)
        /\ \A i \in 1..Len(RunToasts) :
              RunToasts[i].t = "StepCompleted" =>
                  /\ RunToasts[i].pos <= Len(RunProbes)
                  /\ RunToasts[i].port = RunProbes[RunToasts[i].pos].port

\* ------------------------------------------- parse_port_str on its own

\* The characters of the texts: two digits, the comma, the space, a letter and the two signs.
TextChars == {"5", "6", ",", " ", "x", "+", "-"}

RECURSIVE TextsOfLen(_)
TextsOfLen(n) ==
    IF n = 0 THEN {<<>>}
    ELSE {Append(t, c) : t \in TextsOfLen(n - 1), c \in TextChars}

\* The texts of the user's manual (one of them beyond the u16 limit), and
\* one with an invalid token between two equal ports.
ExampleTexts ==
    { <<"5", "0", "0", "0", ",", " ", "6", "0", "0", "0", ",", " ",
        "a", "b", "c", ",", " ", "7", "0", "0", "0">>,
      <<"7", "0", "0", "0", "0">>,
      <<",", ",", " ", " ", ",">>,
      <<"5", ",", "x", ",", "5">> }

\* The texts parse_port_str is called with: every text of the characters
\* up to the length bound, and the examples.
ParserTexts == UNION {TextsOfLen(n) : n \in 0..MaxTextLen} \cup ExampleTexts

\* The application as constructed from an empty configuration directory,
\* about to call parse_port_str on a text.
ParserInit ==
    /\ New(Store(TRUE, TRUE, NoFile))
    /\ inputs = 0
    /\ \E text \in ParserTexts, kind \in {"Open", "Close"} :
           call = [fn |-> "parse_port_str", port_str |-> text, kind |-> kind,
                   done |-> FALSE, ret |-> <<>>, tbase |-> 0]

\* self.parse_port_str(port_str, kind): the toasts are pushed, the ports
\* returned.
CallParsePortStr ==
    /\ call.fn = "parse_port_str"
    /\ ~call.done
    /\ LET r == parse_port_str(call.port_str, call.kind)
       IN  /\ toasts' = toasts \o r.toasts
           /\ call' = [call EXCEPT !.done = TRUE, !.ret = r.ports,
                                   !.tbase = Len(toasts)]
    /\ UNCHANGED <<knockVars, dropped, inputs, file, saveTasks, dismissed>>

ParserNext == CallParsePortStr

ParserSpec == ParserInit /\ [][ParserNext]_vars

\* The text read without the code's loop: the commas, the tokens between
\* them, the token without the spaces around it, the decimal value.
CommasOf(text) == {i \in 1..Len(text) : text[i] = ","}

TokenCount(text) == Cardinality(CommasOf(text)) + 1

\* The place of the k-th comma; 0 and Len + 1 stand for the two ends.
CommaAt(text, k) ==
    IF k = 0 THEN 0
    ELSE IF k = TokenCount(text) THEN Len(text) + 1
    ELSE CHOOSE i \in CommasOf(text) :
             Cardinality({j \in CommasOf(text) : j <= i}) = k

TokenAt(text, k) ==
    SubSeq(text, CommaAt(text, k - 1) + 1, CommaAt(text, k) - 1)

Core(tok) ==
    LET inked == {i \in 1..Len(tok) : tok[i] # " "}
    IN  IF inked = {} THEN <<>>
        ELSE SubSeq(tok, CHOOSE i \in inked : \A j \in inked : i <= j,
                         CHOOSE i \in inked : \A j \in inked : j <= i)

RECURSIVE Pow10(_)
Pow10(n) == IF n = 0 THEN 1 ELSE 10 * Pow10(n - 1)

RECURSIVE SumTo(_, _)
SumTo(f, n) == IF n = 0 THEN 0 ELSE f[n] + SumTo(f, n - 1)

\* The value of a run of digits, most significant first.
ValueOf(ds) ==
    SumTo([i \in 1..Len(ds) |-> DigitVal(ds[i]) * Pow10(Len(ds) - i)], Len(ds))

\* The digits of a numeral: a leading plus sign is not one of them.
DigitsOf(t) == IF t # <<>> /\ t[1] = "+" THEN Tail(t) ELSE t

\* A token that is an integer in [0, 65535]: digits only (after the plus
\* sign, if any), at least one, and the value within the range.  Texts of
\* more than nine digits are beyond the model's integers and count as out
\* of range.
IsPort(t) ==
    LET ds == DigitsOf(t)
    IN  /\ ds # <<>>
        /\ \A i \in 1..Len(ds) : IsDigit(ds[i])
        /\ Len(ds) <= 9
        /\ ValueOf(ds) <= 65535

\* The k-th of the indices in set, in increasing order.
NthOf(set, k) == CHOOSE i \in set : Cardinality({j \in set : j <= i}) = k

\* The tokens of the text that are ports, by index in the comma split.
ValidTokens(text) ==
    {k \in 1..TokenCount(text) : IsPort(Core(TokenAt(text, k)))}

\* The tokens that are neither empty nor ports.
InvalidTokens(text) ==
    {k \in 1..TokenCount(text) :
        Core(TokenAt(text, k)) # <<>> /\ ~IsPort(Core(TokenAt(text, k)))}

ExpectedPorts(text) ==
    [n \in 1..Cardinality(ValidTokens(text)) |->
        ValueOf(DigitsOf(Core(TokenAt(text, NthOf(ValidTokens(text), n)))))]

ExpectedDiagnostics(text, kind) ==
    [n \in 1..Cardinality(InvalidTokens(text)) |->
        [pos   |-> NthOf(InvalidTokens(text), n),
         kind  |-> kind,
         token |-> Core(TokenAt(text, NthOf(InvalidTokens(text), n)))]]

\* The diagnostics the call pushed: position, kind and token of the toasts
\* after the ones that were there before.
PushedDiagnostics ==
    [n \in 1..(Len(toasts) - call.tbase) |->
        [pos   |-> toasts[call.tbase + n].pos,
         kind  |-> toasts[call.tbase + n].kind,
         token |-> toasts[call.tbase + n].token]]

ParseReturned == call.fn = "parse_port_str" /\ call.done

\* C11: parse_port_str returns for every text (before the call, its result
\* is a list of u16 and of toasts, at most one per token), and the ports it
\* returns are exactly the values of the tokens
\* that, trimmed, are integers in [0, 65535], in the order of the text,
\* duplicates kept; empty and invalid tokens are left out and do not stop
\* the tokens after them.
C11_ParserOutput ==
    /\ (call.fn = "parse_port_str" /\ ~call.done) =>
           LET r == parse_port_str(call.port_str, call.kind)
           IN  /\ \A n \in 1..Len(r.ports) : r.ports[n] \in 0..65535
               /\ Len(r.ports) + Len(r.toasts) <= TokenCount(call.port_str)
    /\ ParseReturned => call.ret = ExpectedPorts(call.port_str)

\* A call returned two equal ports from around an invalid token.
C11_Witness ==
    /\ ParseReturned
    /\ call.port_str = <<"5", ",", "x", ",", "5">>
    /\ call.ret = <<5, 5>>

\* C12: parse_port_str pushes exactly one diagnostic for each non-empty
\* token that is no integer in [0, 65535], none for the others, in token
\* order, each with the 1-based index of its token in the comma split,
\* empty tokens counted; so one at position 3 for "5000, 6000, abc, 7000",
\* one at position 1 for "70000", none for "" and ",,  ,".
C12_ParserDiagnostics ==
    ParseReturned =>
        /\ PushedDiagnostics = ExpectedDiagnostics(call.port_str, call.kind)
        /\ \A n \in 1..Len(PushedDiagnostics) : toasts[call.tbase + n].t = "ParseFailed"
        /\ call.port_str =
               <<"5", "0", "0", "0", ",", " ", "6", "0", "0", "0", ",", " ",
                 "a", "b", "c", ",", " ", "7", "0", "0", "0">>
           => /\ Len(PushedDiagnostics) = 1
              /\ PushedDiagnostics[1].pos = 3
              /\ PushedDiagnostics[1].token = <<"a", "b", "c">>
              /\ call.ret = <<5000, 6000, 7000>>
        /\ call.port_str = <<"7", "0", "0", "0", "0">>
           => /\ Len(PushedDiagnostics) = 1
              /\ PushedDiagnostics[1].pos = 1
              /\ call.ret = <<>>
        /\ call.port_str \in {<<>>, <<",", ",", " ", " ", ",">>}
           => PushedDiagnostics = <<>>

\* A call pushed a diagnostic at position 2 for a token after an empty
\* one, and a second one for the token after it.
C12_Witness ==
    /\ ParseReturned
    /\ call.port_str = <<",", "x", ",", "-">>
    /\ Len(PushedDiagnostics) = 2
    /\ PushedDiagnostics[1].pos = 2
    /\ PushedDiagnostics[2].pos = 3

\* ------------------------------------- load_or_create and save on their own

\* The number of calls of load_or_create and save in one behaviour.
MaxCalls == 4

\* Configurations with the characters JSON escapes.
QuotedConfig ==
    [host |-> "10.0.0.1", ports_str |-> <<"\\", "7">>,
     close_ports_str |-> <<"\"", ",", "\\", "\\">>, delay |-> 10]

FileConfigs == LoadedConfigs \cup {QuotedConfig}

\* A JSON object other than the one to_string_pretty writes.
Compact(content) == [content EXCEPT !.pretty = FALSE]

Reordered(content) ==
    [content EXCEPT !.members =
        [i \in 1..Len(content.members) |-> content.members[Len(content.members) + 1 - i]]]

WithUnknownMember(content) ==
    [content EXCEPT !.members = Append(@, StringMember("theme", <<"x">>))]

WithoutMember(content, key) ==
    [content EXCEPT !.members = SelectSeq(@, LAMBDA m : m.key # key)]

WithMemberTwice(content, key) ==
    [content EXCEPT !.members = @ \o SelectSeq(@, LAMBDA m : m.key = key)]

WithDelayAsString(content) ==
    [content EXCEPT !.members =
        Append(SelectSeq(@, LAMBDA m : m.key # "delay"),
               StringMember("delay", <<"1", "0">>))]

WithNegativeDelay(content) ==
    [content EXCEPT !.members =
        Append(SelectSeq(@, LAMBDA m : m.key # "delay"),
               [key |-> "delay", type |-> "number", val |-> <<"-", "1">>])]

\* The files that hold a valid record, each with the record it holds.
ValidFiles ==
    UNION { { [content |-> Serialize(c), record |-> c],
              [content |-> Compact(Serialize(c)), record |-> c],
              [content |-> Reordered(Serialize(c)), record |-> c],
              [content |-> WithUnknownMember(Serialize(c)), record |-> c] }
            : c \in FileConfigs }

\* The files that hold none: missing, unreadable, no JSON, or an object
\* that is no Config.
BrokenFiles ==
    {NoFile, Unreadable, Garbage} \cup
    UNION { { WithoutMember(Serialize(c), "delay"),
              WithoutMember(Serialize(c), "host"),
              WithMemberTwice(Serialize(c), "ports_str"),
              WithDelayAsString(Serialize(c)),
              WithNegativeDelay(Serialize(c)) }
            : c \in FileConfigs \ {DefaultConfig} }

\* The record a file holds, if any.
HoldsRecord(content) == \E f \in ValidFiles : f.content = content

RecordOf(content) == (CHOOSE f \in ValidFiles : f.content = content).record

\* The stores load_or_create and save may find.
ConfigStores ==
    {Store(dir, writable, content) :
        dir \in BOOLEAN, writable \in BOOLEAN,
        content \in {f.content : f \in ValidFiles} \cup BrokenFiles}

\* The process before any call; the fields of the application are held at
\* what new builds from the defaults.  log is the calls made so far, each
\* with the store before and after it.
ConfigInit ==
    /\ \E store \in ConfigStores : file = store
    /\ Constructed(DefaultConfig)
    /\ inputs = 0
    /\ call = [fn |-> "config", log |-> <<>>]

\* config::load_or_create()
CallLoadOrCreate ==
    /\ call.fn = "config"
    /\ Len(call.log) < MaxCalls
    /\ LET r == load_or_create(file)
       IN  /\ file' = r.store
           /\ call' = [call EXCEPT !.log =
                  Append(@, [op |-> "load", config |-> r.config, result |-> "Ok",
                             before |-> file, after |-> r.store])]
    /\ UNCHANGED <<knockVars, toasts, dropped, inputs, saveTasks, dismissed>>

\* The configurations save is called with: the one the last call returned
\* (save(load())), or any other.
SaveArguments ==
    FileConfigs \cup
    (IF call.fn = "config" /\ call.log # <<>>
     THEN {call.log[Len(call.log)].config} ELSE {})

\* config::save(&config)
CallSave(config) ==
    /\ call.fn = "config"
    /\ Len(call.log) < MaxCalls
    /\ LET r == save(config, file)
       IN  /\ file' = r.store
           /\ call' = [call EXCEPT !.log =
                  Append(@, [op |-> "save", config |-> config, result |-> r.result,
                             before |-> file, after |-> r.store])]
    /\ UNCHANGED <<knockVars, toasts, dropped, inputs, saveTasks, dismissed>>

ConfigNext ==
    \/ CallLoadOrCreate
    \/ \E config \in SaveArguments : CallSave(config)

ConfigSpec == ConfigInit /\ [][ConfigNext]_vars

ConfigLog == IF call.fn = "config" THEN call.log ELSE <<>>

\* The built-in defaults, as the user's manual gives them.
BuiltInDefaults ==
    [host |-> "127.0.0.1",
     ports_str |->
         <<"5", "0", "0", "0", ",", " ", "6", "0", "0", "0", ",", " ", "7", "0", "0", "0">>,
     close_ports_str |->
         <<"7", "0", "0", "0", ",", " ", "6", "0", "0", "0", ",", " ", "5", "0", "0", "0">>,
     delay |-> 1000]

\* C13: load_or_create never fails: it returns the built-in defaults when
\* there is no configuration directory or the file is missing, unreadable
\* or corrupt, and exactly the record of the file when the file holds a
\* valid one.
C13_LoadNeverFails ==
    \A i \in 1..Len(ConfigLog) :
        LET c == ConfigLog[i]
        IN  c.op = "load" =>
                /\ c.result = "Ok"
                /\ IF c.before.dir /\ HoldsRecord(c.before.content)
                   THEN c.config = RecordOf(c.before.content)
                   ELSE c.config = BuiltInDefaults

\* load_or_create returned the defaults for a file whose delay is a string,
\* and later the record of a file written in between.
C13_Witness ==
    /\ Len(ConfigLog) >= 3
    /\ ConfigLog[1].op = "load"
    /\ ConfigLog[1].before.dir
    /\ ConfigLog[1].before.content = WithDelayAsString(Serialize(QuotedConfig))
    /\ ConfigLog[1].config = BuiltInDefaults
    /\ ConfigLog[3].op = "load"
    /\ ConfigLog[3].before.content = Serialize(QuotedConfig)
    /\ ConfigLog[3].config = QuotedConfig

\* save(load()) at calls i and i + 1 of the log.
IsSaveOfLoad(i) ==
    /\ i + 1 <= Len(ConfigLog)
    /\ ConfigLog[i].op = "load"
    /\ ConfigLog[i + 1].op = "save"
    /\ ConfigLog[i + 1].config = ConfigLog[i].config

\* C14: from any store, save(load()) done twice in a row leaves the same
\* file after the second time as after the first, and a load_or_create
\* after a successful save returns the configuration that was saved.
C14_RoundTripIdempotent ==
    /\ \A i \in 1..Len(ConfigLog) :
           (IsSaveOfLoad(i) /\ IsSaveOfLoad(i + 2)) =>
               ConfigLog[i + 3].after.content = ConfigLog[i + 1].after.content
    /\ \A i \in 1..(Len(ConfigLog) - 1) :
           (/\ ConfigLog[i].op = "save"
            /\ ConfigLog[i].result = "Ok"
            /\ ConfigLog[i + 1].op = "load") =>
               ConfigLog[i + 1].config = ConfigLog[i].config

\* save(load()) was done twice from a file with a quote and a backslash
\* that was not laid out as to_string_pretty writes it; the second load
\* followed a successful save.
C14_Witness ==
    /\ IsSaveOfLoad(1) /\ IsSaveOfLoad(3)
    /\ ConfigLog[1].before.content = Reordered(Serialize(QuotedConfig))
    /\ ConfigLog[2].result = "Ok"
    /\ ConfigLog[3].config = QuotedConfig
    /\ ConfigLog[4].after.content = Serialize(QuotedConfig)

\* ---------------------------------------- the steps of a run, one by one

\* The knock step in flight, if a run is in progress.
TheStep == CHOOSE task \in BagToSet(knockTasks) : TRUE

\* The number of StepCompleted toasts of the latest run.
StepToastCount ==
    Len(SelectSeq(RunToasts, LAMBDA x : x.t = "StepCompleted"))

\* Where the latest run stands, by the stage of its step: before the probe
\* of index i there were i probes and i StepCompleted toasts; during the
\* delay after it i + 1 probes and i toasts; when the KnockStep message of
\* index i waits, i probes and the toasts of all but the last of them.
SteppingInOrder ==
    /\ \A j \in 1..Len(RunProbes) : RunProbes[j].index = j - 1
    /\ \A j \in 1..Len(RunToasts) :
           RunToasts[j].t = "StepCompleted" => RunToasts[j].pos = j
    /\ is_knocking =>
           /\ TheStep.kind = run.kind
           /\ TheStep.stage = "probe" =>
                  Len(RunProbes) = TheStep.index /\ StepToastCount = TheStep.index
           /\ TheStep.stage = "sleep" =>
                  Len(RunProbes) = TheStep.index + 1 /\ StepToastCount = TheStep.index
           /\ TheStep.stage = "msg" =>
                  /\ Len(RunProbes) = TheStep.index
                  /\ StepToastCount = IF TheStep.index = 0 THEN 0 ELSE TheStep.index - 1

\* A step of the program in which the step in flight leaves its stage.
StageLeft(stage) ==
    /\ knockTasks # EmptyBag
    /\ TheStep.stage = stage
    /\ ~BagIn(TheStep, knockTasks')

\* The stages follow each other: a probe is made only by a step waiting to
\* probe, which then waits out its delay; the delay ends in the message of
\* the next index; only the handling of that message pushes the
\* StepCompleted toast and lets the next probe wait, or ends the run; and
\* the message of index 0 comes from the start, not from a delay.
StagesInOrder ==
    /\ probes' # probes =>
           /\ StageLeft("probe")
           /\ Len(probes') = Len(probes) + 1
           /\ Last(probes').index = TheStep.index
           /\ \E next \in BagToSet(knockTasks') :
                  next.stage = "sleep" /\ next.index = TheStep.index
    /\ StageLeft("sleep") =>
           /\ probes' = probes /\ toasts' = toasts
           /\ \E next \in BagToSet(knockTasks') :
                  next.stage = "msg" /\ next.index = TheStep.index + 1
    /\ StageLeft("msg") =>
           /\ probes' = probes
           /\ \A next \in BagToSet(knockTasks') :
                  next.stage = "probe" /\ next.index = TheStep.index
    /\ (\E j \in (Len(toasts) + 1)..Len(toasts') : toasts'[j].t = "StepCompleted") =>
           StageLeft("msg")
    /\ \A next \in BagToSet(knockTasks') :
           (next.stage = "msg" /\ next.index = 0 /\ ~BagIn(next, knockTasks)) =>
               knockTasks = EmptyBag

\* C15: strictly sequential stepping.  Within a run the probed indices are
\* 0, 1, 2, ... without a gap, repetition or reordering; the probe of index
\* i + 1 is made only after the probe of index i and its delay; the
\* StepCompleted toast of index i is pushed after that delay and before the
\* probe of index i + 1; no delay precedes the first probe.
C15_SequentialStepping == [](SteppingInOrder) /\ [][StagesInOrder]_vars

\* The second probe of a run is being waited out: indices 0 and 1 probed,
\* the StepCompleted toast of index 0 pushed.
C15_Witness ==
    /\ is_knocking
    /\ TheStep.stage = "sleep"
    /\ TheStep.index = 1
    /\ Len(RunProbes) = 2
    /\ StepToastCount = 1

\* C16: the outcome of a probe does not matter.  The probe and the delay
\* change neither the toasts nor is_knocking nor is_close_requested; after a
\* failed probe as after a successful one the delay ends in the message of
\* the next index; the handling of that message pushes the StepCompleted
\* toast of the failed probe's port, and then probes the next port or ends
\* the run as the list says; and no toast reports a failure of a probe.
C16_ProbeOutcomeIrrelevant ==
    [][ /\ (StageLeft("probe") \/ StageLeft("sleep")) =>
               /\ toasts' = toasts
               /\ is_knocking' = is_knocking
               /\ is_close_requested' = is_close_requested
        /\ StageLeft("probe") =>
               \E next \in BagToSet(knockTasks') :
                   /\ next.stage = "sleep"
                   /\ [next EXCEPT !.ok = TRUE] = [TheStep EXCEPT !.stage = "sleep"]
        /\ StageLeft("sleep") =>
               \E next \in BagToSet(knockTasks') :
                   [next EXCEPT !.ok = TRUE] = StepMsg(TheStep.kind, TheStep.index + 1)
        /\ (StageLeft("msg") /\ ~TheStep.ok) =>
               /\ HasIndex(ports_to_use(TheStep.kind), TheStep.index - 1) =>
                      /\ Len(toasts') > Len(toasts)
                      /\ toasts'[Len(toasts) + 1].t = "StepCompleted"
                      /\ toasts'[Len(toasts) + 1].pos = TheStep.index
               /\ is_knocking' = HasIndex(ports_to_use(TheStep.kind), TheStep.index)
               /\ is_close_requested' = is_close_requested
        /\ \A j \in (Len(toasts) + 1)..Len(toasts') :
               toasts'[j].t \in {"StepCompleted", "SequenceCompleted", "CloseRequested",
                                 "Pushed", "ParseFailed", "SaveCompleted"}
      ]_vars

\* A run went on after a failed probe: the StepCompleted toast of index 0
\* was pushed, index 1 was probed and failed too, and its message waits.
C16_Witness ==
    /\ is_knocking
    /\ TheStep.stage = "msg"
    /\ TheStep.index = 2
    /\ ~TheStep.ok
    /\ StepToastCount = 1

\* C17: a run uses the host and the delay it was started with.  Every probe
\* of the latest run went to the host that was in the host field when the
\* start was accepted, and every step of it waits the delay of that moment,
\* whatever HostInputChanged and DelayInputChanged did since.
C17_RunUsesStartHostAndDelay ==
    /\ \A j \in 1..Len(RunProbes) : RunProbes[j].host = run.host
    /\ \A task \in BagToSet(knockTasks) :
           task.stage \in {"probe", "sleep"} =>
               task.host = run.host /\ task.delay = run.delay

\* --------------------------------------------- the writers of the flags

\* A step of a handler that belongs neither to the sequencer nor to the
\* handling of the window's close request.
OtherHandler ==
    \/ \E h \in HostInputs : HostInputChanged(h)
    \/ \E str \in PortInputs : PortInputChanged(str)
    \/ \E str \in PortInputs : ClosePortInputChanged(str)
    \/ \E str \in DelayInputs : DelayInputChanged(str)
    \/ \E tup \in BagToSet(pushTasks) : PushToast(tup)
    \/ \E id \in 1..Len(toasts) : DismissToast(id)
    \/ SaveButtonPressed
    \/ \E task \in BagToSet(saveTasks) : SaveTask(task)
    \/ \E task \in BagToSet(saveTasks) : SaveCompleted(task)
    \/ EventOccurred("Other")

\* C18: only the sequencer and the handling of the close request write
\* is_knocking and is_close_requested.  HostInputChanged, PortInputChanged,
\* ClosePortInputChanged, DelayInputChanged, PushToast, DismissToast,
\* SaveButtonPressed (and its task), SaveCompleted and window events other
\* than the close request leave both as they are: a step that changes one
\* of the two is a step of none of them.
C18_FlagsWrittenOnlyByOwners ==
    [][(is_knocking' # is_knocking \/ is_close_requested' # is_close_requested)
           => ~OtherHandler]_vars

\* During the Close run of a close request, with both flags true, a save
\* was completed and a text was edited.
C18_Witness ==
    /\ is_knocking
    /\ is_close_requested
    /\ inputs = 3
    /\ \E j \in 1..Len(toasts) :
           /\ toasts[j] = CloseToast
           /\ \E k \in (j + 1)..Len(toasts) : toasts[k].t = "SaveCompleted"
    /\ host # run.host

\* ------------------------------------------------------------ shutdown

\* An ExitApp message has been issued: it waits to be handled, or it was
\* handled and the process is gone.
ExitIssued == exitTasks > 0 \/ exited

\* C19: an accepted shutdown ends in the exit.  In no reachable state is
\* is_close_requested true, is_knocking false and no ExitApp issued; and
\* when the knock steps are scheduled fairly, is_close_requested being true
\* leads to ExitApp being issued, whatever the close list and the outcomes
\* of the probes.
C19_ShutdownEndsInExit ==
    /\ [](is_close_requested /\ ~is_knocking => ExitIssued)
    /\ (is_close_requested ~> ExitIssued)

\* The Close run of a close request has made two probes and completed, and
\* the process has exited.
C19_Witness ==
    /\ is_close_requested
    /\ run.shutdown
    /\ Len(RunProbes) >= 2
    /\ ~is_knocking
    /\ exited

\* The shutdown is under way: the close request was accepted and no ExitApp
\* has been issued yet.
ShuttingDown == is_close_requested /\ ~ExitIssued

\* C20: no Open knock after the shutdown is accepted.  From the step that
\* sets is_close_requested to the step that issues ExitApp, is_knocking is
\* true and the run in progress is the Close run of the request; no Open run
\* is started, no Open port is probed, and a KnockPressed is rejected.
C20_NoOpenKnockDuringShutdown ==
    /\ [](ShuttingDown =>
            /\ is_knocking
            /\ run.kind = "Close"
            /\ run.shutdown
            /\ \A task \in BagToSet(knockTasks) : task.kind = "Close")
    /\ [][(ShuttingDown \/ ShuttingDown') =>
            /\ ~(run' # run /\ run'.kind = "Open")
            /\ \A j \in (Len(probes) + 1)..Len(probes') : probes'[j].kind = "Close"
            /\ (ShuttingDown /\ KnockPressed) =>
                   /\ dropped' = dropped \cup {"KnockPressed"}
                   /\ UNCHANGED <<knockVars, toasts>>]_vars

\* A close request was accepted and then a KnockPressed rejected, and the
\* Close run of the request has made its first probe since.
C20_Witness ==
    /\ ShuttingDown
    /\ inputs = 2
    /\ "KnockPressed" \in dropped
    /\ Len(RunProbes) >= 1
    /\ RunProbes[1].kind = "Close"

====
